---- MODULE Spec2Model ----
(***************************************************************************)
(* Social-listening dashboard: keyword tagging of posts (product, flavor,  *)
(* sentiment) and the dashboard script that merges the tagged tweets and   *)
(* YouTube comments and aggregates them by day, quarter and year.          *)
(*                                                                         *)
(* A Python str is modelled as a tuple of one-character strings, so that   *)
(* lower(), capitalize() and the substring test `w in s` are computed      *)
(* character by character.                                                 *)
(***************************************************************************)
EXTENDS Integers, Sequences, FiniteSets, TLC

(***************************************************************************)
(* Python str primitives                                                   *)
(***************************************************************************)
UpperCase == <<"A","B","C","D","E","F","G","H","I","J","K","L","M",
               "N","O","P","Q","R","S","T","U","V","W","X","Y","Z">>

LowerCase == <<"a","b","c","d","e","f","g","h","i","j","k","l","m",
               "n","o","p","q","r","s","t","u","v","w","x","y","z">>

IndexIn(c, letters) ==
    IF \E i \in DOMAIN letters : letters[i] = c
    THEN CHOOSE i \in DOMAIN letters : letters[i] = c
    ELSE 0

\* the characters of the model: the ASCII letters and the space
Chars == { UpperCase[i] : i \in DOMAIN UpperCase }
           \cup { LowerCase[i] : i \in DOMAIN LowerCase } \cup {" "}

LowerOf == [c \in Chars |->
              IF IndexIn(c, UpperCase) # 0 THEN LowerCase[IndexIn(c, UpperCase)] ELSE c]

UpperOf == [c \in Chars |->
              IF IndexIn(c, LowerCase) # 0 THEN UpperCase[IndexIn(c, LowerCase)] ELSE c]

char_lower(c) == LowerOf[c]

char_upper(c) == UpperOf[c]

\* str.lower()
lower(s) == [i \in 1..Len(s) |-> char_lower(s[i])]

\* str.capitalize(): first character upper-cased, the rest lower-cased
capitalize(s) ==
    [i \in 1..Len(s) |-> IF i = 1 THEN char_upper(s[i]) ELSE char_lower(s[i])]

\* the Python test `w in s` on two str values
str_in(w, s) ==
    \E i \in 0..(Len(s) - Len(w)) : SubSeq(s, i + 1, i + Len(w)) = w

\* ord(c) for the characters of the model: space, A-Z, a-z
OrdOf == [c \in Chars |->
            IF IndexIn(c, UpperCase) # 0 THEN 64 + IndexIn(c, UpperCase)
            ELSE IF IndexIn(c, LowerCase) # 0 THEN 96 + IndexIn(c, LowerCase)
            ELSE 32]

ord(c) == OrdOf[c]

\* the Python order s < t on two str values (lexicographic by code point)
RECURSIVE str_lt(_, _)
str_lt(s, t) ==
    IF t = <<>> THEN FALSE
    ELSE IF s = <<>> THEN TRUE
    ELSE IF ord(Head(s)) # ord(Head(t)) THEN ord(Head(s)) < ord(Head(t))
    ELSE str_lt(Tail(s), Tail(t))

(***************************************************************************)
(* String literals of the source                                           *)
(***************************************************************************)
KitKat     == <<"K","i","t","K","a","t">>
Maggi      == <<"M","a","g","g","i">>
Nescafe    == <<"N","e","s","c","a","f","e">>
Milo       == <<"M","i","l","o">>
Smarties   == <<"S","m","a","r","t","i","e","s">>
Nestea     == <<"N","e","s","t","e","a">>
TollHouse  == <<"T","o","l","l"," ","H","o","u","s","e">>
Other      == <<"O","t","h","e","r">>

NESTLE_PRODUCTS == <<KitKat, Maggi, Nescafe, Milo, Smarties, Nestea, TollHouse>>

FLAVOR_KEYWORDS ==
    << <<"c","h","o","c","o","l","a","t","e">>,
       <<"v","a","n","i","l","l","a">>,
       <<"s","t","r","a","w","b","e","r","r","y">>,
       <<"c","o","f","f","e","e">>,
       <<"c","a","r","a","m","e","l">>,
       <<"m","i","n","t">>,
       <<"m","a","t","c","h","a">> >>

\* default= of the product multiselect
default_products == <<KitKat, Maggi, Nescafe, Milo>>

\* twitter_api.analyze_sentiment
twitter_positive_words ==
    << <<"l","o","v","e">>, <<"g","r","e","a","t">>, <<"a","w","e","s","o","m","e">>,
       <<"b","e","s","t">>, <<"d","e","l","i","c","i","o","u","s">>,
       <<"y","u","m","m","y">>, <<"e","x","c","e","l","l","e","n","t">> >>

twitter_negative_words ==
    << <<"h","a","t","e">>, <<"b","a","d">>, <<"t","e","r","r","i","b","l","e">>,
       <<"w","o","r","s","t">>, <<"d","i","s","g","u","s","t","i","n","g">>,
       <<"a","w","f","u","l">> >>

\* youtube_api.analyze_sentiment
youtube_positive_words ==
    << <<"l","o","v","e">>, <<"g","r","e","a","t">>, <<"a","w","e","s","o","m","e">>,
       <<"b","e","s","t">>, <<"d","e","l","i","c","i","o","u","s">> >>

youtube_negative_words ==
    << <<"h","a","t","e">>, <<"b","a","d">>, <<"t","e","r","r","i","b","l","e">>,
       <<"w","o","r","s","t">> >>

\* twitter_api.extract_product
twitter_products ==
    << <<"k","i","t","k","a","t">>, <<"m","a","g","g","i">>,
       <<"n","e","s","c","a","f","e">>, <<"m","i","l","o">>,
       <<"s","m","a","r","t","i","e","s">> >>

(***************************************************************************)
(* Entity tagger of the dashboard (app.py)                                 *)
(***************************************************************************)
\* index of the first occurrence of w in s (Len(s) when there is none)
first_pos(w, s) ==
    IF str_in(w, s)
    THEN CHOOSE i \in 0..(Len(s) - Len(w)) :
            /\ SubSeq(s, i + 1, i + Len(w)) = w
            /\ \A k \in 0..(i - 1) : SubSeq(s, k + 1, k + Len(w)) # w
    ELSE Len(s)

\* a tagger that lets the match that comes first in the text win
product_loop_by_text_position(text_lower, products, i) ==
    LET M == { j \in i..Len(products) : str_in(lower(products[j]), text_lower) }
        pos(j) == first_pos(lower(products[j]), text_lower)
    IN  IF M = {} THEN Other
        ELSE products[CHOOSE j \in M :
                        \A k \in M : pos(j) < pos(k) \/ (pos(j) = pos(k) /\ j <= k)]

\* the for loop of extract_product_mentions from index i on
RECURSIVE product_loop(_, _, _)
product_loop(text_lower, products, i) ==
    IF i > Len(products) THEN Other
    ELSE IF str_in(lower(products[i]), text_lower) THEN products[i]
    ELSE product_loop(text_lower, products, i + 1)

extract_product_mentions(text, products) ==
    product_loop(lower(text), products, 1)

\* the for loop of extract_flavor_mentions: found_flavors after index i..
RECURSIVE flavor_loop(_, _, _, _)
flavor_loop(text_lower, flavors, i, found_flavors) ==
    IF i > Len(flavors) THEN found_flavors
    ELSE flavor_loop(text_lower, flavors, i + 1,
                     IF str_in(lower(flavors[i]), text_lower)
                     THEN Append(found_flavors, flavors[i])
                     ELSE found_flavors)

\* A value that is a list or None: [none |-> TRUE] is Python's None.
None == [none |-> TRUE, items |-> <<>>]
List(items) == [none |-> FALSE, items |-> items]

\* Python truthiness of a list-or-None value
truthy(v) == ~v.none /\ v.items # <<>>

\* a tagger that returns the list it collected even when it is empty
extract_flavor_mentions_empty_list(text, flavors) ==
    List(flavor_loop(lower(text), flavors, 1, <<>>))

extract_flavor_mentions(text, flavors) ==
    LET found_flavors == flavor_loop(lower(text), flavors, 1, <<>>)
    IN  IF truthy(List(found_flavors)) THEN List(found_flavors) ELSE None

(***************************************************************************)
(* Sentiment classifiers and the Twitter fetcher's product tagger          *)
(***************************************************************************)
\* number of (possibly overlapping) occurrences of w in s
occurrences(w, s) ==
    Cardinality({ i \in 0..(Len(s) - Len(w)) : SubSeq(s, i + 1, i + Len(w)) = w })

\* a counter that adds every occurrence of every word
RECURSIVE count_occurrences(_, _, _)
count_occurrences(words, text_lower, i) ==
    IF i > Len(words) THEN 0
    ELSE occurrences(words[i], text_lower) + count_occurrences(words, text_lower, i + 1)

\* sum([1 for word in words if word in text_lower]) from index i on
RECURSIVE count_words(_, _, _)
count_words(words, text_lower, i) ==
    IF i > Len(words) THEN 0
    ELSE (IF str_in(words[i], text_lower) THEN 1 ELSE 0)
         + count_words(words, text_lower, i + 1)

sentiment_label(pos_count, neg_count) ==
    IF pos_count > neg_count THEN "Positive"
    ELSE IF neg_count > pos_count THEN "Negative"
    ELSE "Neutral"

twitter_analyze_sentiment(text) ==
    sentiment_label(count_words(twitter_positive_words, lower(text), 1),
                    count_words(twitter_negative_words, lower(text), 1))

youtube_analyze_sentiment(text) ==
    sentiment_label(count_words(youtube_positive_words, lower(text), 1),
                    count_words(youtube_negative_words, lower(text), 1))

RECURSIVE twitter_product_loop(_, _)
twitter_product_loop(text_lower, i) ==
    IF i > Len(twitter_products) THEN Other
    ELSE IF str_in(twitter_products[i], text_lower)
         THEN capitalize(twitter_products[i])
    ELSE twitter_product_loop(text_lower, i + 1)

extract_product(text) == twitter_product_loop(lower(text), 1)

(***************************************************************************)
(* State                                                                   *)
(***************************************************************************)
VARIABLES
    \* one text put through the taggers and classifiers
    text,               \* the str handed to the functions
    products,           \* the products argument of extract_product_mentions
    calls,              \* which of the enrichments below have been applied
    tagged,             \* app.py: the product and flavors cells of the row
    twitter_row,        \* twitter_api.py: sentiment, sentiment_score, product_mentioned
    youtube_sentiment   \* youtube_api.py: the sentiment cell of the comment

tagVars == <<text, products, calls, tagged, twitter_row, youtube_sentiment>>

VARIABLES
    \* one run of the dashboard script (app.py)
    pc,                  \* the section of the script that runs next
    selected_products,   \* value of the product multiselect
    twitter_df,          \* tweets: fetched, then tagged
    youtube_comments_df, \* comments: fetched, then tagged
    combined_df,         \* the concatenation the charts are computed from
    summary,             \* metrics of the executive summary
    daily_product,       \* groupby(['date', 'product']).size()
    quarterly_data,      \* groupby(['quarter', 'product']).size()
    comparison_df,       \* current against previous quarter
    yearly_data,         \* groupby(['year', 'product']).size()
    fig_slope,           \* traces of the yearly trajectory chart
    flavors_df,          \* one row per (mention, flavor)
    flavor_counts,       \* flavors_df['flavor'].value_counts()
    flavor_product,      \* flavors_df.groupby(['product', 'flavor']).size()
    product_counts,      \* combined_df['product'].value_counts()
    unique_quarters,     \* quarters of quarterly_data, latest first
    unique_years,        \* years of yearly_data, latest first
    bound,               \* names the script has assigned so far
    rendered             \* what the script has put on the page, in order

dataVars == <<twitter_df, youtube_comments_df, combined_df>>

chartVars == <<summary, product_counts, daily_product, quarterly_data, unique_quarters,
               comparison_df, yearly_data, unique_years, fig_slope, flavors_df,
               flavor_counts, flavor_product>>

runVars == <<pc, selected_products, dataVars, chartVars, bound, rendered>>

vars == <<tagVars, runVars>>

(***************************************************************************)
(* Bounded inputs                                                          *)
(***************************************************************************)
\* pieces the texts are concatenated from
Fragments ==
    { <<"k","i","t","k","a","t">>,
      <<"M","A","G","G","I">>,
      <<"l","o","v","e">>,
      <<"h","a","t","e">>,
      <<"Y","u","m","m","y">>,
      <<"m","i","n","t">>,
      <<"C","h","o","c","o","l","a","t","e","y">> }

MaxFragments == 3

RECURSIVE Concats(_)
Concats(n) ==
    IF n = 0 THEN { <<>> }
    ELSE Concats(n - 1) \cup { t \o f : t \in Concats(n - 1), f \in Fragments }

Texts == Concats(MaxFragments)

Range(s) == { s[i] : i \in DOMAIN s }

\* the options the modelled user selects among
ProductPool == <<KitKat, Maggi>>

RECURSIVE Orderings(_)
Orderings(S) ==
    IF S = {} THEN { <<>> }
    ELSE UNION { { <<x>> \o t : t \in Orderings(S \ {x}) } : x \in S }

\* the multiselect returns the chosen options in the order they were chosen
Selections == UNION { Orderings(S) : S \in SUBSET Range(ProductPool) }

Rational(n, d) == [num |-> n, den |-> d]

(***************************************************************************)
(* pandas values                                                           *)
(***************************************************************************)
\* A timestamp as the API delivers it: a datetime, None, or a str that is no date.
Datetime(y, m, d) == [kind |-> "datetime", y |-> y, m |-> m, d |-> d]

\* NaT / NaN cells and the three calendar cells derived from a timestamp
NaT == [null |-> TRUE, y |-> 0, m |-> 0, d |-> 0]
NaTPeriod == [null |-> TRUE, y |-> 0, q |-> 0]
NaN == [null |-> TRUE, y |-> 0]

\* pd.to_datetime(column): None becomes NaT (an unparseable str raises instead)
to_datetime(ts) ==
    IF ts.kind = "datetime" THEN [null |-> FALSE, y |-> ts.y, m |-> ts.m, d |-> ts.d]
    ELSE NaT

\* .dt.date
dt_date(t) == t

\* .dt.to_period('Q'): the calendar quarter of the month
dt_quarter(t) ==
    IF t.null THEN NaTPeriod
    ELSE [null |-> FALSE, y |-> t.y, q |-> ((t.m - 1) \div 3) + 1]

\* .dt.year
dt_year(t) == IF t.null THEN NaN ELSE [null |-> FALSE, y |-> t.y]

\* position of a non-null bucket cell in calendar order
bucket_ord(col, v) ==
    IF col = "date" THEN (v.y * 12 + (v.m - 1)) * 31 + (v.d - 1)
    ELSE IF col = "quarter" THEN v.y * 4 + (v.q - 1)
    ELSE v.y

group_lt(col, a, b) ==
    \/ bucket_ord(col, a[col]) < bucket_ord(col, b[col])
    \/ /\ bucket_ord(col, a[col]) = bucket_ord(col, b[col])
       /\ str_lt(a.product, b.product)

RECURSIVE sort_groups(_, _)
sort_groups(col, S) ==
    IF S = {} THEN <<>>
    ELSE LET first == CHOOSE x \in S : \A y \in S \ {x} : group_lt(col, x, y)
         IN  <<first>> \o sort_groups(col, S \ {first})

\* a groupby that keeps a row for every bucket crossed with every product
groupby_size_zero_filled(df, col) ==
    LET idx == { i \in DOMAIN df : ~df[i][col].null }
        keys == { df[i][col] : i \in idx } \X { df[i].product : i \in idx }
    IN  sort_groups(col,
          { (col :> k[1]) @@
            [product |-> k[2],
             mentions |-> Cardinality({ i \in idx : df[i][col] = k[1]
                                                    /\ df[i].product = k[2] })] :
            k \in keys })

\* a groupby with sort=False: groups come in order of first appearance
groupby_size_unsorted(df, col) ==
    LET idx == { i \in DOMAIN df : ~df[i][col].null }
        firsts == { i \in idx : \A j \in idx :
                      j < i => <<df[j][col], df[j].product>> # <<df[i][col], df[i].product>> }
        nth(n) == CHOOSE i \in firsts : Cardinality({ j \in firsts : j < i }) = n - 1
    IN  [n \in 1..Cardinality(firsts) |->
           (col :> df[nth(n)][col]) @@
           [product |-> df[nth(n)].product,
            mentions |-> Cardinality({ i \in idx : df[i][col] = df[nth(n)][col]
                                                   /\ df[i].product = df[nth(n)].product })]]

\* df.groupby([col, 'product']).size().reset_index(name='mentions'):
\* rows with a null key are left out (dropna), groups come sorted by key
groupby_size(df, col) ==
    LET idx == { i \in DOMAIN df : ~df[i][col].null }
        keys == { <<df[i][col], df[i].product>> : i \in idx }
    IN  sort_groups(col,
          { (col :> k[1]) @@
            [product |-> k[2],
             mentions |-> Cardinality({ i \in idx : df[i][col] = k[1]
                                                    /\ df[i].product = k[2] })] :
            k \in keys })

\* column.value_counts(): one row per distinct value (row order not modelled)
value_counts(column) ==
    { [value |-> v, count |-> Cardinality({ i \in DOMAIN column : column[i] = v })] :
        v \in Range(column) }

Max(S) == CHOOSE x \in S : \A y \in S : y <= x

(***************************************************************************)
(* The dashboard script: bounded inputs                                    *)
(***************************************************************************)
\* posts (tweets and comments together) fetched in one run
MaxPosts == 3

\* texts of the fetched posts: the empty text, and one naming a product and
\* two flavors
PostTexts ==
    { <<>>,
      <<"k","i","t","k","a","t"," ","C","h","o","c","o","l","a","t","e","y"," ",
        "m","i","n","t">> }

\* three years, three quarters that are not adjacent, two days of one quarter
Timestamps ==
    { Datetime(2022, 12, 31), Datetime(2023, 12, 31),
      Datetime(2024, 4, 1), Datetime(2024, 6, 30) }

\* timestamps that are no date: an absent value and a str that does not parse
MalformedTimestamps ==
    { [kind |-> "None", y |-> 0, m |-> 0, d |-> 0],
      [kind |-> "unparseable", y |-> 0, m |-> 0, d |-> 0] }

\* the script's variables before they are assigned
NoCharts ==
    /\ summary = [total_mentions |-> 0, top_product_count |-> 0, top_flavor_count |-> 0]
    /\ product_counts = {}
    /\ daily_product = <<>>
    /\ quarterly_data = <<>>
    /\ unique_quarters = <<>>
    /\ unique_years = <<>>
    /\ comparison_df = <<>>
    /\ yearly_data = <<>>
    /\ fig_slope = <<>>
    /\ flavors_df = <<>>
    /\ flavor_counts = {}
    /\ flavor_product = <<>>

NoData ==
    /\ twitter_df = <<>>
    /\ youtube_comments_df = <<>>
    /\ combined_df = <<>>

\* the script is not running
RunIdle ==
    /\ pc = "idle"
    /\ selected_products = <<>>
    /\ NoData
    /\ NoCharts
    /\ bound = {}
    /\ rendered = <<>>

(***************************************************************************)
(* Tagging one text: Init and the three enrichments                        *)
(***************************************************************************)
\* no text is being tagged
TagIdle ==
    /\ text = <<>>
    /\ products = <<>>
    /\ calls = {}
    /\ tagged = [product |-> <<>>, flavors |-> None]
    /\ twitter_row = [sentiment |-> "", sentiment_score |-> Rational(0, 1),
                      product_mentioned |-> <<>>]
    /\ youtube_sentiment = ""

TagInit ==
    /\ text \in Texts
    /\ products \in Selections
    /\ calls = {}
    /\ tagged = [product |-> <<>>, flavors |-> None]
    /\ twitter_row = [sentiment |-> "", sentiment_score |-> Rational(0, 1),
                      product_mentioned |-> <<>>]
    /\ youtube_sentiment = ""
    /\ RunIdle

\* app.py: the two .apply(...) lines that tag a row
TagRow ==
    /\ "app" \notin calls
    /\ calls' = calls \cup {"app"}
    /\ tagged' = [product |-> extract_product_mentions(text, products),
                  flavors |-> extract_flavor_mentions(text, FLAVOR_KEYWORDS)]
    /\ UNCHANGED <<text, products, twitter_row, youtube_sentiment>>
    /\ UNCHANGED runVars

\* df['sentiment'].map({'Positive': 1, 'Neutral': 0.5, 'Negative': 0})
sentiment_score(label) ==
    IF label = "Positive" THEN Rational(1, 1)
    ELSE IF label = "Neutral" THEN Rational(1, 2)
    ELSE Rational(0, 1)

\* twitter_api.fetch_twitter_data: the enrichment of a fetched tweet
TwitterEnrich ==
    /\ "twitter_api" \notin calls
    /\ calls' = calls \cup {"twitter_api"}
    /\ twitter_row' =
         [sentiment |-> twitter_analyze_sentiment(text),
          sentiment_score |-> sentiment_score(twitter_analyze_sentiment(text)),
          product_mentioned |-> extract_product(text)]
    /\ UNCHANGED <<text, products, tagged, youtube_sentiment>>
    /\ UNCHANGED runVars

\* youtube_api.fetch_youtube_data: the enrichment of a fetched comment
YoutubeEnrich ==
    /\ "youtube_api" \notin calls
    /\ calls' = calls \cup {"youtube_api"}
    /\ youtube_sentiment' = youtube_analyze_sentiment(text)
    /\ UNCHANGED <<text, products, tagged, twitter_row>>
    /\ UNCHANGED runVars

TagNext == TagRow \/ TwitterEnrich \/ YoutubeEnrich

SpecTag == TagInit /\ [][TagNext]_vars

(***************************************************************************)
(* The dashboard script (app.py), section by section                       *)
(***************************************************************************)
Init ==
    /\ TagIdle
    /\ pc = "start"
    /\ selected_products \in {default_products, <<>>}
    /\ NoData
    /\ NoCharts
    /\ bound = {}
    /\ rendered = <<>>

Goto(next) == pc' = next /\ UNCHANGED <<tagVars, selected_products>>

\* if selected_products: ... with a non-empty selection
BeginFetch ==
    /\ pc = "start"
    /\ selected_products # <<>>
    /\ Goto("fetch_twitter")
    /\ UNCHANGED <<dataVars, chartVars, bound, rendered>>

\* ... else: st.info("Please select at least one product ...")
NoProductSelected ==
    /\ pc = "start"
    /\ selected_products = <<>>
    /\ rendered' = Append(rendered, "info: select at least one product")
    /\ Goto("done")
    /\ UNCHANGED <<dataVars, chartVars, bound>>

\* fetch_twitter_data: data.append({...}) for one tweet of the response
FetchTweet(t, ts) ==
    /\ pc = "fetch_twitter"
    /\ Len(twitter_df) < MaxPosts
    /\ twitter_df' = Append(twitter_df, [text |-> t, created_at |-> ts])
    /\ UNCHANGED <<pc, tagVars, selected_products, youtube_comments_df, combined_df,
                   chartVars, bound, rendered>>

\* fetch_twitter_data: return pd.DataFrame(data)
TwitterFetched ==
    /\ pc = "fetch_twitter"
    /\ Goto("fetch_youtube")
    /\ bound' = bound \cup {"twitter_df"}
    /\ UNCHANGED <<dataVars, chartVars, rendered>>

\* fetch_twitter_data: except -> st.error(...), return pd.DataFrame()
TwitterApiError ==
    /\ pc = "fetch_twitter"
    /\ twitter_df' = <<>>
    /\ rendered' = Append(rendered, "error: Twitter API Error")
    /\ Goto("fetch_youtube")
    /\ bound' = bound \cup {"twitter_df"}
    /\ UNCHANGED <<youtube_comments_df, combined_df, chartVars>>

\* fetch_youtube_data: comments_data.append({...}) for one comment
FetchComment(t, ts) ==
    /\ pc = "fetch_youtube"
    /\ Len(twitter_df) + Len(youtube_comments_df) < MaxPosts
    /\ youtube_comments_df' =
         Append(youtube_comments_df, [comment |-> t, published_at |-> ts])
    /\ UNCHANGED <<pc, tagVars, selected_products, twitter_df, combined_df,
                   chartVars, bound, rendered>>

\* fetch_youtube_data: return pd.DataFrame(videos_data), pd.DataFrame(comments_data)
YoutubeFetched ==
    /\ pc = "fetch_youtube"
    /\ Goto("process")
    /\ bound' = bound \cup {"youtube_comments_df"}
    /\ UNCHANGED <<dataVars, chartVars, rendered>>

\* fetch_youtube_data: except -> st.error(...), return two empty frames
YoutubeApiError ==
    /\ pc = "fetch_youtube"
    /\ youtube_comments_df' = <<>>
    /\ rendered' = Append(rendered, "error: YouTube API Error")
    /\ Goto("process")
    /\ bound' = bound \cup {"youtube_comments_df"}
    /\ UNCHANGED <<twitter_df, combined_df, chartVars>>

column(df, c) == [i \in DOMAIN df |-> df[i][c]]

\* the five columns the script adds to a fetched frame
enrich(row, t, ts) ==
    row @@ [product  |-> extract_product_mentions(t, selected_products),
            flavors  |-> extract_flavor_mentions(t, FLAVOR_KEYWORDS),
            date     |-> dt_date(to_datetime(ts)),
            quarter  |-> dt_quarter(to_datetime(ts)),
            year     |-> dt_year(to_datetime(ts))]

\* pd.to_datetime(column) raises on a str that is no date
raises_on(cells) == \E i \in DOMAIN cells : cells[i].kind = "unparseable"

\* if not df.empty: add product, flavors, date, quarter, year
process(df, text_column, time_column) ==
    [i \in DOMAIN df |-> enrich(df[i], df[i][text_column], df[i][time_column])]

\* df[['date', 'product', 'flavors', 'quarter', 'year']]
combined_columns == {"date", "product", "flavors", "quarter", "year"}

select(df, columns) == [i \in DOMAIN df |-> [c \in columns |-> df[i][c]]]

\* pd.concat([...], ignore_index=True) of the two selections
concat(first, second) ==
    select(first, combined_columns) \o select(second, combined_columns)

\* Data collection, after the two fetches: tag both frames and combine them
ProcessData ==
    /\ pc = "process"
    /\ ~raises_on(column(twitter_df, "created_at"))
    /\ ~raises_on(column(youtube_comments_df, "published_at"))
    /\ twitter_df' = process(twitter_df, "text", "created_at")
    /\ youtube_comments_df' = process(youtube_comments_df, "comment", "published_at")
    /\ combined_df' = concat(twitter_df', youtube_comments_df')
    /\ bound' = bound \cup {"combined_df"}
    /\ Goto("render")
    /\ UNCHANGED <<chartVars, rendered>>

\* a script without the `if not combined_df.empty:` test: the first groupby
\* over the column-less frame raises KeyError
NoDataRaises ==
    /\ pc = "render"
    /\ combined_df = <<>>
    /\ rendered' = Append(rendered, "exception: KeyError")
    /\ Goto("crashed")
    /\ UNCHANGED <<dataVars, chartVars, bound>>

\* else: st.warning("No data found for selected products ...")
NoDataWarning ==
    /\ pc = "render"
    /\ combined_df = <<>>
    /\ rendered' = Append(rendered, "warning: No data found for selected products")
    /\ Goto("done")
    /\ UNCHANGED <<dataVars, chartVars, bound>>

\* [flavor for flavors in combined_df['flavors'].dropna() for flavor in flavors]
RECURSIVE all_flavors_of(_)
all_flavors_of(cells) ==
    IF cells = <<>> THEN <<>>
    ELSE (IF Head(cells).none THEN <<>> ELSE Head(cells).items)
         \o all_flavors_of(Tail(cells))

top_count(counts) == IF counts = {} THEN 0 ELSE Max({ r.count : r \in counts })

\* Executive summary: total mentions, top product, trending flavor. Which of
\* several equally frequent values is shown first is not modelled, its count is.
ExecutiveSummary ==
    /\ pc = "render"
    /\ combined_df # <<>>
    /\ summary' =
         [total_mentions |-> Len(combined_df),
          top_product_count |-> top_count(value_counts(column(combined_df, "product"))),
          top_flavor_count |->
             top_count(value_counts(all_flavors_of(column(combined_df, "flavors"))))]
    /\ bound' = bound \cup {"total_mentions", "top_product"}
                  \cup (IF all_flavors_of(column(combined_df, "flavors")) # <<>>
                        THEN {"top_flavor"} ELSE {})
    /\ rendered' = Append(rendered, "metrics: executive summary")
    /\ Goto("demand")
    /\ UNCHANGED <<dataVars, product_counts, daily_product, quarterly_data,
                   unique_quarters, comparison_df, yearly_data, unique_years,
                   fig_slope, flavors_df, flavor_counts, flavor_product>>

\* sorted(column.unique()) without reverse=True: the earliest bucket first
RECURSIVE sorted_ascending(_, _)
sorted_ascending(col, S) ==
    IF S = {} THEN <<>>
    ELSE LET first == CHOOSE x \in S : \A y \in S : bucket_ord(col, x) <= bucket_ord(col, y)
         IN  <<first>> \o sorted_ascending(col, S \ {first})

\* sorted(column.unique(), reverse=True) on the bucket column of a grouped table
RECURSIVE sorted_reverse(_, _)
sorted_reverse(col, S) ==
    IF S = {} THEN <<>>
    ELSE LET last == CHOOSE x \in S : \A y \in S : bucket_ord(col, y) <= bucket_ord(col, x)
         IN  <<last>> \o sorted_reverse(col, S \ {last})

RECURSIVE sort_products(_)
sort_products(S) ==
    IF S = {} THEN <<>>
    ELSE LET first == CHOOSE x \in S : \A y \in S \ {x} : str_lt(x, y)
         IN  <<first>> \o sort_products(S \ {first})

\* rows of a grouped table whose bucket is b
rows_of(data, col, b) == { data[i] : i \in { j \in DOMAIN data : data[j][col] = b } }

\* Series.replace(0, 1)
replace_0_1(x) == IF x = 0 THEN 1 ELSE x

\* the change and change_pct columns
with_change(row) ==
    row @@ [change |-> row.mentions_current - row.mentions_previous,
            change_pct |->
               Rational((row.mentions_current - row.mentions_previous) * 100,
                        replace_0_1(row.mentions_previous))]

\* a merge with how='inner': only the products present on both sides
merge_inner(current, previous) ==
    LET keys == { r.product : r \in current } \cap { r.product : r \in previous }
        of(side, p) == (CHOOSE r \in side : r.product = p).mentions
        ordered == sort_products(keys)
    IN  [i \in DOMAIN ordered |->
           [product |-> ordered[i],
            mentions_current |-> of(current, ordered[i]),
            mentions_previous |-> of(previous, ordered[i])]]

\* pd.merge(current, previous, on='product', suffixes=('_current', '_previous'),
\* how='outer').fillna(0): one row per product of either side, in product order
merge_outer_fillna(current, previous) ==
    LET keys == { r.product : r \in current } \cup { r.product : r \in previous }
        of(side, p) == IF \E r \in side : r.product = p
                       THEN (CHOOSE r \in side : r.product = p).mentions
                       ELSE 0
        ordered == sort_products(keys)
    IN  [i \in DOMAIN ordered |->
           [product |-> ordered[i],
            mentions_current |-> of(current, ordered[i]),
            mentions_previous |-> of(previous, ordered[i])]]

comparison_of(data, current_q, previous_q) ==
    LET merged == merge_outer_fillna(rows_of(data, "quarter", current_q),
                                     rows_of(data, "quarter", previous_q))
    IN  [i \in DOMAIN merged |-> with_change(merged[i])]

\* Series.unique(): the distinct values in order of first appearance
RECURSIVE unique(_)
unique(s) ==
    IF s = <<>> THEN <<>>
    ELSE LET rest == unique(SubSeq(s, 1, Len(s) - 1))
         IN  IF s[Len(s)] \in Range(rest) THEN rest ELSE Append(rest, s[Len(s)])

\* data[data['product'] == product]: the rows of one product, in table order
RECURSIVE filter_product(_, _)
filter_product(data, product) ==
    IF data = <<>> THEN <<>>
    ELSE (IF Head(data).product = product THEN <<Head(data)>> ELSE <<>>)
         \o filter_product(Tail(data), product)

\* traces drawn from the current and the previous year only
traces_latest_two(data) ==
    LET years == sorted_reverse("year", Range(column(data, "year")))
        recent == SelectSeq(data, LAMBDA r : r.year \in {years[1], years[2]})
        names == unique(column(recent, "product"))
    IN  [i \in DOMAIN names |->
           [name |-> names[i],
            x |-> column(filter_product(recent, names[i]), "year"),
            y |-> column(filter_product(recent, names[i]), "mentions")]]

\* one go.Scatter trace per product of yearly_data
traces_of(data) ==
    LET names == unique(column(data, "product"))
    IN  [i \in DOMAIN names |->
           [name |-> names[i],
            x |-> column(filter_product(data, names[i]), "year"),
            y |-> column(filter_product(data, names[i]), "mentions")]]

\* tab1, Current Trends: product_counts and the daily trend
CurrentTrends ==
    /\ product_counts' = value_counts(column(combined_df, "product"))
    /\ daily_product' = groupby_size(combined_df, "date")

\* tab2, Quarterly Comparison; shown is TRUE when the comparison is drawn
QuarterlyComparison(shown) ==
    /\ quarterly_data' = groupby_size(combined_df, "quarter")
    /\ unique_quarters' =
         sorted_reverse("quarter", Range(column(quarterly_data', "quarter")))
    /\ shown = (Len(unique_quarters') >= 2)
    /\ IF shown
       THEN comparison_df' =
              comparison_of(quarterly_data', unique_quarters'[1], unique_quarters'[2])
       ELSE UNCHANGED comparison_df

\* tab3, Yearly Comparison; shown is TRUE when the trajectory chart is drawn
YearlyComparison(shown) ==
    /\ yearly_data' = groupby_size(combined_df, "year")
    /\ unique_years' = sorted_reverse("year", Range(column(yearly_data', "year")))
    /\ shown = (Len(unique_years') >= 2)
    /\ IF shown
       THEN fig_slope' = traces_of(yearly_data')
       ELSE UNCHANGED fig_slope

\* Product Demand Analysis: the three tabs, in order
ProductDemandAnalysis ==
    /\ pc = "demand"
    /\ \E q_shown, y_shown \in BOOLEAN :
          /\ CurrentTrends
          /\ QuarterlyComparison(q_shown)
          /\ YearlyComparison(y_shown)
          /\ bound' = bound
               \cup {"product_counts", "daily_product", "quarterly_data",
                     "unique_quarters", "yearly_data", "unique_years"}
               \cup (IF q_shown THEN {"current_q", "previous_q", "comparison_df"} ELSE {})
               \cup (IF y_shown THEN {"current_year", "previous_year", "fig_slope"} ELSE {})
          /\ rendered' = rendered
               \o <<"chart: product bar", "chart: product pie", "chart: daily timeline">>
               \o (IF q_shown THEN <<"chart: quarter comparison",
                                     "table: quarter comparison">> ELSE <<>>)
               \o (IF y_shown THEN <<"chart: yearly trajectory">> ELSE <<>>)
    /\ Goto("flavors")
    /\ UNCHANGED <<dataVars, summary, flavors_df, flavor_counts, flavor_product>>

\* the rows one mention adds to all_flavors_data
flavor_rows(row) ==
    IF truthy(row.flavors)
    THEN [k \in DOMAIN row.flavors.items |->
            [date |-> row.date, flavor |-> capitalize(row.flavors.items[k]),
             product |-> row.product, quarter |-> row.quarter, year |-> row.year]]
    ELSE <<>>

\* a flattening that keeps only the first flavor of a mention
RECURSIVE first_flavor_only(_)
first_flavor_only(df) ==
    IF df = <<>> THEN <<>>
    ELSE (IF flavor_rows(Head(df)) = <<>> THEN <<>> ELSE <<Head(flavor_rows(Head(df)))>>)
         \o first_flavor_only(Tail(df))

\* for idx, row in combined_df.iterrows(): ... all_flavors_data.append({...})
RECURSIVE all_flavors_data(_)
all_flavors_data(df) ==
    IF df = <<>> THEN <<>>
    ELSE flavor_rows(Head(df)) \o all_flavors_data(Tail(df))

flavor_product_lt(a, b) ==
    \/ str_lt(a.product, b.product)
    \/ a.product = b.product /\ str_lt(a.flavor, b.flavor)

RECURSIVE sort_flavor_groups(_)
sort_flavor_groups(S) ==
    IF S = {} THEN <<>>
    ELSE LET first == CHOOSE x \in S : \A y \in S \ {x} : flavor_product_lt(x, y)
         IN  <<first>> \o sort_flavor_groups(S \ {first})

\* flavors_df.groupby(['product', 'flavor']).size().reset_index(name='mentions')
groupby_product_flavor(df) ==
    sort_flavor_groups(
      { [product |-> k[1], flavor |-> k[2],
         mentions |-> Cardinality({ i \in DOMAIN df : df[i].product = k[1]
                                                      /\ df[i].flavor = k[2] })] :
        k \in { <<df[i].product, df[i].flavor>> : i \in DOMAIN df } })

\* Flavor Trend Intelligence
FlavorIntelligence ==
    /\ pc = "flavors"
    /\ flavors_df' = all_flavors_data(combined_df)
    /\ IF flavors_df' # <<>>
       THEN /\ flavor_counts' = value_counts(column(flavors_df', "flavor"))
            /\ flavor_product' = groupby_product_flavor(flavors_df')
            /\ bound' = bound \cup {"flavors_df", "flavor_counts", "flavor_product"}
            /\ rendered' = rendered \o <<"chart: flavor bar", "chart: flavor by product">>
       ELSE /\ bound' = bound \cup {"flavors_df"}
            /\ UNCHANGED <<flavor_counts, flavor_product, rendered>>
    /\ Goto("done")
    /\ UNCHANGED <<dataVars, summary, product_counts, daily_product, quarterly_data,
                   unique_quarters, comparison_df, yearly_data, unique_years, fig_slope>>

Next ==
    \/ BeginFetch
    \/ NoProductSelected
    \/ \E t \in PostTexts, ts \in Timestamps : FetchTweet(t, ts)
    \/ TwitterFetched
    \/ TwitterApiError
    \/ \E t \in PostTexts, ts \in Timestamps : FetchComment(t, ts)
    \/ YoutubeFetched
    \/ YoutubeApiError
    \/ ProcessData
    \/ NoDataWarning
    \/ ExecutiveSummary
    \/ ProductDemandAnalysis
    \/ FlavorIntelligence

Spec == Init /\ [][Next]_vars

(***************************************************************************)
(* The same script on a batch that may hold malformed timestamps           *)
(***************************************************************************)
\* an uncaught exception ends the script run
Crash ==
    /\ rendered' = Append(rendered, "exception: to_datetime")
    /\ Goto("crashed")
    /\ UNCHANGED <<dataVars, chartVars, bound>>

\* pd.to_datetime raises in the data collection section
ProcessDataRaises ==
    /\ pc = "process"
    /\ \/ raises_on(column(twitter_df, "created_at"))
       \/ raises_on(column(youtube_comments_df, "published_at"))
    /\ Crash

NextRaw ==
    \/ Next
    \/ \E t \in PostTexts, ts \in MalformedTimestamps : FetchTweet(t, ts)
    \/ \E t \in PostTexts, ts \in MalformedTimestamps : FetchComment(t, ts)
    \/ ProcessDataRaises

SpecRaw == Init /\ [][NextRaw]_vars

(***************************************************************************)
(* Properties of the taggers and classifiers (under SpecTag)               *)
(***************************************************************************)
ProductMatches == { i \in DOMAIN products : str_in(lower(products[i]), lower(text)) }

FlavorMatches ==
    { i \in DOMAIN FLAVOR_KEYWORDS : str_in(lower(FLAVOR_KEYWORDS[i]), lower(text)) }

\* C1: extract_product_mentions returns the entry of the product list with the
\* smallest list index among those whose lower-cased name is a substring of the
\* lower-cased text, whatever the position of the match in the text, and returns
\* "Other" exactly when no entry matches.
C1_FirstMatchWins ==
    "app" \in calls =>
        /\ ProductMatches = {} => tagged.product = Other
        /\ ProductMatches # {} =>
              \E i \in ProductMatches :
                  /\ tagged.product = products[i]
                  /\ \A j \in ProductMatches : i <= j
        /\ tagged.product = Other <=> ProductMatches = {}

\* two entries match, the later entry of the list occurs earlier in the text,
\* and the earlier entry of the list is the tag
C1_Witness ==
    /\ "app" \in calls
    /\ \E i, j \in ProductMatches :
          /\ i < j
          /\ first_pos(lower(products[j]), lower(text))
               < first_pos(lower(products[i]), lower(text))
          /\ tagged.product = products[i]

\* C2: the product value of both taggers (extract_product_mentions of the
\* dashboard, extract_product of the Twitter fetcher) is literally one of the
\* entries of the tagger's product list, or "Other".
C2_ProductInVocabulary ==
    /\ "app" \in calls => tagged.product \in Range(products) \cup {Other}
    /\ "twitter_api" \in calls =>
          twitter_row.product_mentioned \in Range(twitter_products) \cup {Other}

Labels == {"Positive", "Negative", "Neutral"}

PresenceCount(words) ==
    Cardinality({ i \in DOMAIN words : str_in(words[i], lower(text)) })

RECURSIVE SumOccurrences(_, _)
SumOccurrences(words, i) ==
    IF i > Len(words) THEN 0
    ELSE occurrences(words[i], lower(text)) + SumOccurrences(words, i + 1)

LabelOf(p, n) == IF p > n THEN "Positive" ELSE IF n > p THEN "Negative" ELSE "Neutral"

\* C4 as stated: a word that occurs k times in the text adds k to the count of
\* its list; the label compares the two counts, a tie being Neutral.
C4_OccurrenceCounts ==
    /\ "twitter_api" \in calls =>
          twitter_row.sentiment
            = LabelOf(SumOccurrences(twitter_positive_words, 1),
                      SumOccurrences(twitter_negative_words, 1))
    /\ "youtube_api" \in calls =>
          youtube_sentiment
            = LabelOf(SumOccurrences(youtube_positive_words, 1),
                      SumOccurrences(youtube_negative_words, 1))

\* C4 amended: each word of a list adds 1 to the list's count when it occurs in
\* the lower-cased text at least once, however often it occurs; Positive when
\* the positive count is greater, Negative when the negative count is greater,
\* Neutral on every tie including 0-0; every text, the empty one included, gets
\* one of the three labels.
C4_PresenceCounts ==
    /\ "twitter_api" \in calls =>
          /\ twitter_row.sentiment \in Labels
          /\ twitter_row.sentiment
               = LabelOf(PresenceCount(twitter_positive_words),
                         PresenceCount(twitter_negative_words))
    /\ "youtube_api" \in calls =>
          /\ youtube_sentiment \in Labels
          /\ youtube_sentiment
               = LabelOf(PresenceCount(youtube_positive_words),
                         PresenceCount(youtube_negative_words))

\* a positive word occurs twice and a negative word once: both classifiers have
\* run and report the 1-1 tie
C4_Witness ==
    /\ {"twitter_api", "youtube_api"} \subseteq calls
    /\ SumOccurrences(youtube_positive_words, 1) = 2
    /\ SumOccurrences(youtube_negative_words, 1) = 1
    /\ twitter_row.sentiment = "Neutral"
    /\ youtube_sentiment = "Neutral"

(***************************************************************************)
(* Properties of one run of the dashboard script (under Spec, SpecRaw)     *)
(***************************************************************************)
RECURSIVE SumOf(_, _)
SumOf(table, field) ==
    IF table = <<>> THEN 0 ELSE Head(table)[field] + SumOf(Tail(table), field)

\* the charts of the product demand section have been computed
Aggregated == pc \in {"flavors", "done"} /\ "daily_product" \in bound

\* the mentions (rows of combined_df) with product p whose column col is b
MentionsAt(col, b, p) ==
    { i \in DOMAIN combined_df : combined_df[i][col] = b /\ combined_df[i].product = p }

AggregatorFields == {"product", "sentiment", "date", "quarter", "year"}

Populated(row, c) ==
    /\ c \in DOMAIN row
    /\ IF c = "product" THEN row[c] # <<>>
       ELSE IF c = "sentiment" THEN row[c] \in Labels
       ELSE ~row[c].null

\* C5: every row of combined_df has product, sentiment, date, quarter and year
\* populated.
C5_MentionFieldsPopulated ==
    \A i \in DOMAIN combined_df :
        \A c \in AggregatorFields : Populated(combined_df[i], c)

\* C6: with at least two quarters present, the comparison table has exactly one
\* row per product mentioned in the current or the previous quarter and no other
\* row; current and previous are the product's counts in those quarters (0 for
\* a missing side), change = current - previous and
\* change_pct = change / max(previous, 1) * 100.
C6_OuterJoin ==
    (Aggregated /\ Len(unique_quarters) >= 2) =>
        LET current_q == unique_quarters[1]
            previous_q == unique_quarters[2]
            present == { p \in Range(column(combined_df, "product")) :
                           MentionsAt("quarter", current_q, p)
                             \cup MentionsAt("quarter", previous_q, p) # {} }
        IN  /\ Range(column(comparison_df, "product")) = present
            /\ Len(comparison_df) = Cardinality(present)
            /\ \A i \in DOMAIN comparison_df :
                  LET row == comparison_df[i]
                  IN  /\ row.mentions_current
                           = Cardinality(MentionsAt("quarter", current_q, row.product))
                      /\ row.mentions_previous
                           = Cardinality(MentionsAt("quarter", previous_q, row.product))
                      /\ row.change = row.mentions_current - row.mentions_previous
                      /\ row.change_pct.den # 0
                      /\ row.change_pct.num * Max({row.mentions_previous, 1})
                           = row.change * 100 * row.change_pct.den

\* a product mentioned twice in the current quarter and never in the previous
\* one is compared as current 2, previous 0, change 2, +200 percent, next to a
\* product mentioned in the previous quarter only
C6_Witness ==
    /\ pc = "done"
    /\ \E i, j \in DOMAIN comparison_df :
          /\ comparison_df[i].mentions_current = 2
          /\ comparison_df[i].mentions_previous = 0
          /\ comparison_df[i].change = 2
          /\ comparison_df[i].change_pct = Rational(200, 1)
          /\ comparison_df[j].mentions_current = 0
          /\ comparison_df[j].mentions_previous = 1

Reported(result) == \E k \in DOMAIN rendered : rendered[k] = result

\* C7: with fewer than two distinct quarters (years) in the data the comparator
\* puts a distinct "insufficient data" result on the page and produces no
\* comparison row (no trajectory). Stated for the runs in which both fetches
\* succeeded.
C7_InsufficientDataReported ==
    (Aggregated /\ rendered[1] = "metrics: executive summary") =>
        /\ Len(unique_quarters) < 2 =>
              /\ Reported("insufficient data: quarters")
              /\ comparison_df = <<>>
        /\ Len(unique_years) < 2 =>
              /\ Reported("insufficient data: years")
              /\ fig_slope = <<>>

WellFormed(df, time_column) ==
    { i \in DOMAIN df : df[i][time_column].kind = "datetime" }

\* C8: a run over a batch that holds malformed timestamps completes; exactly the
\* malformed records are dropped and every well-formed record is a mention in
\* the aggregates.
C8_MalformedSkipped ==
    (pc \in {"done", "crashed"} /\ selected_products # <<>>) =>
        LET well_formed == Cardinality(WellFormed(twitter_df, "created_at"))
                             + Cardinality(WellFormed(youtube_comments_df, "published_at"))
            fetched == Len(twitter_df) + Len(youtube_comments_df)
            skipped == fetched - Len(combined_df)
        IN  /\ pc = "done"
            /\ skipped = fetched - well_formed
            /\ SumOf(daily_product, "mentions") = well_formed
            /\ SumOf(quarterly_data, "mentions") = well_formed
            /\ SumOf(yearly_data, "mentions") = well_formed

ExactCounts(col, table) ==
    /\ { <<table[i][col], table[i].product>> : i \in DOMAIN table }
         = { <<combined_df[i][col], combined_df[i].product>> : i \in DOMAIN combined_df }
    /\ \A i, j \in DOMAIN table :
          (table[i][col] = table[j][col] /\ table[i].product = table[j].product) => i = j
    /\ \A i \in DOMAIN table :
          /\ table[i].mentions = Cardinality(MentionsAt(col, table[i][col], table[i].product))
          /\ table[i].mentions > 0
    /\ SumOf(table, "mentions") = Len(combined_df)

\* C9: at each granularity (day, quarter, year) the table has one entry per
\* (bucket, product) pair that occurs in a mention, the entry's count is the
\* number of mentions with that bucket and product, no entry has count 0, and
\* the counts sum to the number of mentions.
C9_ExactCounts ==
    Aggregated =>
        /\ ExactCounts("date", daily_product)
        /\ ExactCounts("quarter", quarterly_data)
        /\ ExactCounts("year", yearly_data)
        /\ summary.total_mentions = Len(combined_df)

\* two mentions of one product fall on two days of one quarter while another
\* product is mentioned in another year: the quarter entry counts 2 and no
\* entry exists for the pairs without a mention
C9_Witness ==
    /\ pc = "done"
    /\ Len(daily_product) = 3
    /\ Len(quarterly_data) = 2
    /\ \E i \in DOMAIN quarterly_data : quarterly_data[i].mentions = 2
    /\ Cardinality(Range(column(yearly_data, "year")))
         * Cardinality(Range(column(yearly_data, "product"))) > Len(yearly_data)

\* the flavors of mention i, as they are displayed
FlavorsOf(i) ==
    IF combined_df[i].flavors.none THEN {}
    ELSE { capitalize(f) : f \in Range(combined_df[i].flavors.items) }

NFlavors(i) ==
    IF combined_df[i].flavors.none THEN 0 ELSE Len(combined_df[i].flavors.items)

RECURSIVE SumNFlavors(_)
SumNFlavors(n) == IF n = 0 THEN 0 ELSE NFlavors(n) + SumNFlavors(n - 1)

RECURSIVE SumCounts(_)
SumCounts(counts) ==
    IF counts = {} THEN 0
    ELSE LET r == CHOOSE x \in counts : TRUE
         IN  r.count + SumCounts(counts \ {r})

AllFlavors == { capitalize(f) : f \in Range(FLAVOR_KEYWORDS) }

CountOf(counts, f) ==
    IF \E r \in counts : r.value = f
    THEN (CHOOSE r \in counts : r.value = f).count
    ELSE 0

\* C10: a mention with N distinct flavors adds 1 to each of its N flavor counts
\* (per flavor, per product and flavor, per flavor, product and bucket) and
\* nothing to another; the flavor counts sum to the sum over the mentions of
\* their number of flavors; a mention without flavors adds nothing.
C10_FlavorFanOut ==
    pc = "done" /\ "flavors_df" \in bound =>
        /\ \A i \in DOMAIN combined_df : NFlavors(i) = Cardinality(FlavorsOf(i))
        /\ \A f \in AllFlavors :
              CountOf(flavor_counts, f)
                = Cardinality({ i \in DOMAIN combined_df : f \in FlavorsOf(i) })
        /\ \A r \in flavor_counts : r.value \in AllFlavors /\ r.count > 0
        /\ SumCounts(flavor_counts) = SumNFlavors(Len(combined_df))
        /\ SumOf(flavor_product, "mentions") = SumNFlavors(Len(combined_df))
        /\ \A k \in DOMAIN flavor_product :
              flavor_product[k].mentions
                = Cardinality({ i \in DOMAIN combined_df :
                                  /\ combined_df[i].product = flavor_product[k].product
                                  /\ flavor_product[k].flavor \in FlavorsOf(i) })
        /\ \A f \in AllFlavors, i \in DOMAIN combined_df :
              Cardinality({ k \in DOMAIN flavors_df :
                              /\ flavors_df[k].flavor = f
                              /\ flavors_df[k].product = combined_df[i].product
                              /\ flavors_df[k].date = combined_df[i].date })
                = Cardinality({ j \in DOMAIN combined_df :
                                  /\ f \in FlavorsOf(j)
                                  /\ combined_df[j].product = combined_df[i].product
                                  /\ combined_df[j].date = combined_df[i].date })

\* two mentions with two flavors each and one without any: each of the two
\* flavors counts 2, four in all
C10_Witness ==
    /\ pc = "done"
    /\ Len(combined_df) = 3
    /\ \E i \in DOMAIN combined_df : NFlavors(i) = 0
    /\ Cardinality({ i \in DOMAIN combined_df : NFlavors(i) = 2 }) = 2
    /\ Cardinality(flavor_counts) = 2
    /\ \A r \in flavor_counts : r.count = 2
    /\ SumCounts(flavor_counts) = 4

(***************************************************************************)
(* C11: current and previous period of the comparator                      *)
(***************************************************************************)
\* the non-null buckets of a column of the mention table
Present(col) == { c \in Range(column(combined_df, col)) : ~c.null }

\* b is the calendar-latest bucket of S
Latest(col, S, b) ==
    b \in S /\ \A c \in S : bucket_ord(col, c) <= bucket_ord(col, b)

\* cur and prev are the latest bucket present and the latest one before it
LatestTwo(col, cur, prev) ==
    /\ Latest(col, Present(col), cur)
    /\ Latest(col, { c \in Present(col) : bucket_ord(col, c) < bucket_ord(col, cur) }, prev)
    /\ cur # prev

\* position in the mention table of the first mention of a bucket
FirstMention(col, b) ==
    CHOOSE i \in DOMAIN combined_df :
        /\ combined_df[i][col] = b
        /\ \A j \in 1..(i - 1) : combined_df[j][col] # b

\* C11: whenever a comparison is drawn, the current period is the
\* calendar-latest quarter (year) that has a mention and the previous period
\* is the latest one strictly before it, so the two differ, in whatever order
\* the mentions arrived and whether or not the two periods are adjacent.
C11_LatestTwoPeriods ==
    Aggregated =>
      /\ Len(unique_quarters) = Cardinality(Present("quarter"))
      /\ Len(unique_years) = Cardinality(Present("year"))
      /\ "comparison_df" \in bound <=> Cardinality(Present("quarter")) >= 2
      /\ "fig_slope" \in bound <=> Cardinality(Present("year")) >= 2
      /\ "comparison_df" \in bound =>
            LatestTwo("quarter", unique_quarters[1], unique_quarters[2])
      /\ "fig_slope" \in bound =>
            LatestTwo("year", unique_years[1], unique_years[2])

\* a comparison of two quarters that are not adjacent in the calendar, the
\* current one having arrived before the previous one, with an older third
\* quarter present
C11_Witness ==
    /\ Aggregated
    /\ "comparison_df" \in bound
    /\ "fig_slope" \in bound
    /\ Len(unique_quarters) = 3
    /\ bucket_ord("quarter", unique_quarters[1])
         > bucket_ord("quarter", unique_quarters[2]) + 1
    /\ FirstMention("quarter", unique_quarters[1])
         < FirstMention("quarter", unique_quarters[2])
    /\ FirstMention("quarter", unique_quarters[3])
         < FirstMention("quarter", unique_quarters[2])

(***************************************************************************)
(* C12: the yearly trajectory                                              *)
(***************************************************************************)
\* the products that have a mention
Mentioned == Range(column(combined_df, "product"))

\* the (year, count) pairs of product p over every year in which it was seen
YearCounts(p) ==
    { <<b, Cardinality(MentionsAt("year", b, p))>> :
        b \in { c \in Present("year") : MentionsAt("year", c, p) # {} } }

\* trace t lists exactly the pairs of its product, earliest year first, each
\* year once
FullTrajectory(t) ==
    /\ Len(t.x) = Len(t.y)
    /\ { <<t.x[k], t.y[k]>> : k \in DOMAIN t.x } = YearCounts(t.name)
    /\ \A k \in 1..(Len(t.x) - 1) :
          bucket_ord("year", t.x[k]) < bucket_ord("year", t.x[k + 1])

\* every product that has a mention has one trace, and it is the full one
TrajectoryForEveryProduct ==
    /\ { fig_slope[i].name : i \in DOMAIN fig_slope } = Mentioned
    /\ \A i, j \in DOMAIN fig_slope : fig_slope[i].name = fig_slope[j].name => i = j
    /\ \A i \in DOMAIN fig_slope : FullTrajectory(fig_slope[i])

\* C12 as stated: in every run that aggregated mentions, every product that
\* has a mention has a trajectory listing all its (year, count) pairs in
\* ascending year order, each year once.
C12_TrajectoryAlways ==
    Aggregated => TrajectoryForEveryProduct

\* C12: when the mentions span at least two distinct years, every product
\* that has a mention has exactly one trajectory, listing its (year, count)
\* pair for every year in which it was seen (not only the latest two), in
\* ascending year order and each year once; when they span fewer than two
\* years no trajectory is built at all.
C12_TrajectoryWhenTwoYears ==
    Aggregated =>
      IF Cardinality(Present("year")) >= 2
      THEN "fig_slope" \in bound /\ TrajectoryForEveryProduct
      ELSE "fig_slope" \notin bound /\ fig_slope = <<>>

\* one product seen in three years whose mentions did not arrive in calendar
\* order, next to a product seen in none of them but one
C12_Witness ==
    /\ Aggregated
    /\ "fig_slope" \in bound
    /\ \E i \in DOMAIN fig_slope : Len(fig_slope[i].x) = 3
    /\ bucket_ord("year", combined_df[1].year) > bucket_ord("year", combined_df[2].year)

(***************************************************************************)
(* C13: aggregation does not depend on the order of the mentions           *)
(***************************************************************************)
\* the reorderings of a mention table
Reorderings(df) ==
    { f \in [DOMAIN df -> DOMAIN df] : \A i, j \in DOMAIN df : f[i] = f[j] => i = j }

\* every order in which the mentions of df can arrive: the same set for any
\* two tables that are permutations of each other
Arrangements(df) == { [i \in DOMAIN df |-> df[f[i]]] : f \in Reorderings(df) }

\* one arrangement, fixed by the mentions alone and not by their order
Canonical(df) == CHOOSE t \in Arrangements(df) : TRUE

\* the flavor counts drawn from the flattened flavor rows fd
FlavorAggregatesOf(fd) ==
    IF fd # <<>>
    THEN <<value_counts(column(fd, "flavor")), groupby_product_flavor(fd)>>
    ELSE <<{}, <<>>>>

\* the day, quarter and year tables and the flavor counts of a mention table
AggregatesOf(df) ==
    <<groupby_size(df, "date"), groupby_size(df, "quarter"), groupby_size(df, "year"),
      FlavorAggregatesOf(all_flavors_data(df))>>

\* C13: at the end of a run the day, quarter and year tables and the flavor
\* counts are those of the canonical arrangement of the mentions, which is
\* the same for every arrival order of the same mentions (tweets and
\* comments interleaved in any way); so any two arrival orders give
\* identical tables.
C13_OrderIndependent ==
    pc = "done" /\ Aggregated =>
        <<daily_product, quarterly_data, yearly_data, <<flavor_counts, flavor_product>>>>
          = AggregatesOf(Canonical(combined_df))

\* tweets and comments were both fetched, three mentions fall in three
\* different day groups, flavors were found, and the mentions arrived neither
\* in the canonical order nor in the order of the day table
C13_Witness ==
    /\ pc = "done" /\ Aggregated
    /\ twitter_df # <<>> /\ youtube_comments_df # <<>>
    /\ Len(daily_product) = 3
    /\ "flavor_counts" \in bound
    /\ combined_df # Canonical(combined_df)
    /\ Cardinality(Arrangements(combined_df)) = 6
    /\ \E i \in DOMAIN daily_product :
          <<daily_product[i].date, daily_product[i].product>>
            # <<combined_df[i].date, combined_df[i].product>>

(***************************************************************************)
(* C14: the empty batch                                                    *)
(***************************************************************************)
\* both fetches returned, without an API error, and delivered no post
EmptyBatch ==
    /\ "combined_df" \in bound
    /\ twitter_df = <<>>
    /\ youtube_comments_df = <<>>
    /\ ~Reported("error: Twitter API Error")
    /\ ~Reported("error: YouTube API Error")

\* C14: a run whose fetches delivered no tweet and no comment does not raise:
\* it goes on to its end with an empty mention table, no row in any
\* aggregate table of any granularity, no comparison row and no trajectory,
\* and nothing on the page but the "no data" notice.
C14_EmptyBatchCompletes ==
    EmptyBatch =>
      /\ pc \in {"render", "done"}
      /\ combined_df = <<>>
      /\ NoCharts
      /\ rendered = IF pc = "done"
                    THEN <<"warning: No data found for selected products">>
                    ELSE <<>>

\* the run over an empty batch has reached its end
C14_Witness ==
    /\ EmptyBatch
    /\ pc = "done"
    /\ selected_products # <<>>
    /\ bound = {"twitter_df", "youtube_comments_df", "combined_df"}

(***************************************************************************)
(* C15: the two sentiment classifiers                                      *)
(***************************************************************************)
\* C15: for every text, analyze_sentiment of the Twitter fetcher and
\* analyze_sentiment of the YouTube fetcher return the same label.
C15_SameLabel ==
    {"twitter_api", "youtube_api"} \subseteq calls =>
        twitter_row.sentiment = youtube_sentiment

====
